---- MODULE Spec2Model ----
(***************************************************************************)
(* Model of src/landing2.py: the precision-landing controller.             *)
(*                                                                         *)
(* The controller is one sequential program (main -> check_and_correct ->  *)
(* apply_correction).  Its position is pc; its local variables are the     *)
(* module's variables.  The vehicle (kRPC) is an external collaborator:    *)
(* every telemetry read is a fresh nondeterministic value from a small     *)
(* set, every command is recorded in the vehicle-side variables.           *)
(*                                                                         *)
(* Python floats are modelled as exact rationals <<n, d>> (d > 0, lowest   *)
(* terms).  math.pi, math.cos and math.sqrt are rational approximations,   *)
(* stated where they are defined.                                          *)
(***************************************************************************)
EXTENDS Integers, Sequences, FiniteSets, TLC

(***************************************************************************)
(* Rational arithmetic                                                     *)
(***************************************************************************)
IAbs(x) == IF x < 0 THEN -x ELSE x

RECURSIVE Gcd(_, _)
Gcd(a, b) == IF b = 0 THEN a ELSE Gcd(b, a % b)

\* n/d in lowest terms with a positive denominator (d # 0).
Norm(n, d) ==
    LET g == Gcd(IAbs(n), IAbs(d))
        s == IF d < 0 THEN -1 ELSE 1
    IN  <<(s * n) \div g, (s * d) \div g>>

RInt(k) == <<k, 1>>
RNeg(a) == <<-a[1], a[2]>>
RAbs(a) == <<IAbs(a[1]), a[2]>>
RAdd(a, b) ==
    LET g == Gcd(a[2], b[2])
    IN  Norm(a[1] * (b[2] \div g) + b[1] * (a[2] \div g), (a[2] \div g) * b[2])
RSub(a, b) == RAdd(a, RNeg(b))
\* cross-reduced product, so that intermediate values stay small
RMul(a, b) ==
    LET g1 == Gcd(IAbs(a[1]), b[2])
        g2 == Gcd(IAbs(b[1]), a[2])
    IN  Norm((a[1] \div g1) * (b[1] \div g2), (a[2] \div g2) * (b[2] \div g1))
\* a / b, b # 0 (the callers test for a zero divisor first)
RDiv(a, b) == RMul(a, Norm(b[2], b[1]))
RLt(a, b) == a[1] * b[2] < b[1] * a[2]
RLe(a, b) == a[1] * b[2] <= b[1] * a[2]
RGt(a, b) == RLt(b, a)
RGe(a, b) == RLe(b, a)
RMin(a, b) == IF RLt(b, a) THEN b ELSE a
RMax(a, b) == IF RGt(b, a) THEN b ELSE a
RZero == <<0, 1>>
\* a rounded to the nearest multiple of 1/s (s > 0), as the integer count
RRound(a, s) ==
    LET n == 2 * a[1] * s + a[2]
        d == 2 * a[2]
    IN  IF n >= 0 THEN n \div d ELSE -((-n + d - 1) \div d)

RECURSIVE ISqrtIn(_, _, _)
\* largest r in lo..hi with r*r <= n (bisection)
ISqrtIn(n, lo, hi) ==
    IF lo >= hi THEN lo
    ELSE LET mid == (lo + hi + 1) \div 2
         IN  IF mid * mid <= n THEN ISqrtIn(n, mid, hi) ELSE ISqrtIn(n, lo, mid - 1)
ISqrt(n) == ISqrtIn(n, 0, 46340)

(***************************************************************************)
(* Program constants                                                       *)
(***************************************************************************)
R == 600000
TARGET_ALT == 1000
MISS == Norm(2, 10)
\* math.pi, as the rational 22/7
PI == Norm(22, 7)
\* dt, the default sampling interval of get_angular_velocities (seconds)
DT == 1
\* the dead zone of calculate_required_dV (degrees)
DeadZone == Norm(1, 100)
\* |lat| above which calculate_required_dV applies the cosine (degrees)
LatCosLimit == Norm(1, 10)
\* |dV| above which apply_correction steers on an axis (m/s)
SteerLimit == Norm(1, 10)
\* |dV| from which apply_correction commands the three-axis direction (m/s)
ShapeLimit == 10
\* ap.error above which the controller keeps waiting (degrees)
AlignTol == 5
\* main's target, target_lat + target_mis1 and target_lon + target_mis2;
\* target_mis2 is kept to five decimals
target_lat == RAdd(Norm(-96944, 1000000), RInt(0))
target_lon == RAdd(Norm(-745575, 10000), Norm(-49772, 100000))
\* the approach threshold of main (degrees)
ApproachLimit == 60
\* the staging altitude of main (m)
StageAlt == 1500
\* a lower throttle passed by check_and_correct
ThrPowArg_medium == Norm(1, 10)
\* thr_pow, as check_and_correct passes it, and the recovery burn's throttle
ThrPowArg == Norm(5, 10)
RecoveryThrottle == Norm(5, 10)
\* max(0.05, min(impulse_time, 5))
ImpulseFloor == Norm(5, 100)
ImpulseCeil == 5

\* a value that is no number: Python's None
None == <<0, 0>>
\* the outcome of a float division by zero
ZeroDiv == <<1, 0>>

(***************************************************************************)
(* The pure functions of the source                                        *)
(***************************************************************************)
RECURSIVE SumThrust(_)
\* get_current_thrust: the available thrust of the active, fuelled engines
SumThrust(engines) ==
    IF engines = <<>> THEN 0
    ELSE (IF Head(engines).active /\ Head(engines).has_fuel
             THEN Head(engines).available_thrust ELSE 0)
         + SumThrust(Tail(engines))
get_current_thrust(engines) == SumThrust(engines)

\* get_angular_velocities: the rates between two readings <<lat, lon, alt>>
get_angular_velocities(r1, r2, dt) ==
    <<RDiv(RSub(r2[1], r1[1]), RInt(dt)),
      RDiv(RSub(r2[2], r1[2]), RInt(dt)),
      RDiv(RSub(r2[3], r1[3]), RInt(dt))>>

\* the test letting a level ship through
NotDescending_strict(V) == RGt(V, RZero)
\* the test of predict_landing_coords: the ship is not falling
NotDescending(V) == RGe(V, RZero)

\* predict_landing_coords on the reading r = <<lat, lon, alt>>:
\* <<None, None>>, <<ZeroDiv, ZeroDiv>> or <<pred_lat, pred_lon>>
predict_landing_coords(r, w_la, w_lo, V) ==
    IF NotDescending(V) THEN <<None, None>>
    ELSE IF RAbs(V) = RZero THEN <<ZeroDiv, ZeroDiv>>
    ELSE LET tt == RDiv(RSub(r[3], RInt(TARGET_ALT)), RAbs(V))
         IN  <<RAdd(r[1], RMul(w_la, tt)), RAdd(r[2], RMul(w_lo, tt))>>

\* math.cos(math.radians(lat)) by Bhaskara's rational approximation
\* (32400 - 4 x^2) / (32400 + x^2), x in degrees, to two decimals
CosDeg(lat) ==
    LET x2 == RMul(lat, lat)
        c  == RDiv(RSub(RInt(32400), RMul(RInt(4), x2)), RAdd(RInt(32400), x2))
    IN  Norm(RRound(c, 100), 100)

\* calculate_required_dV without its dead zone
calculate_required_dV_nodeadzone(dcoord, tt, lat) ==
    IF RMul(RInt(180), tt) = RZero THEN ZeroDiv
    ELSE LET m0 == RDiv(RMul(PI, RInt(R)), RMul(RInt(180), tt))
             m1 == IF RGt(RAbs(lat), LatCosLimit) THEN RMul(m0, CosDeg(lat)) ELSE m0
         IN  RMul(dcoord, m1)
\* calculate_required_dV: 0 in the dead zone, ZeroDiv when 180 * t = 0
calculate_required_dV(dcoord, tt, lat) ==
    IF RLt(RAbs(dcoord), DeadZone) THEN RZero
    ELSE IF RMul(RInt(180), tt) = RZero THEN ZeroDiv
    ELSE LET m0 == RDiv(RMul(PI, RInt(R)), RMul(RInt(180), tt))
             m1 == IF RGt(RAbs(lat), LatCosLimit) THEN RMul(m0, CosDeg(lat)) ELSE m0
         IN  RMul(dcoord, m1)

\* the miss test with either component sufficing
WithinMiss_either(dla, dlo) == RLt(RAbs(dla), MISS) \/ RLt(RAbs(dlo), MISS)
\* the miss test of check_and_correct
WithinMiss(dla, dlo) == RLt(RAbs(dla), MISS) /\ RLt(RAbs(dlo), MISS)

\* the sign-only steering of apply_correction
Steer(dv) == IF RGt(RAbs(dv), SteerLimit) THEN (IF RGt(dv, RZero) THEN 1 ELSE -1) ELSE 0
\* the direction apply_correction commands
ShapedDirection(dVla, dVlo) ==
    IF RLt(RAbs(dVlo), RInt(ShapeLimit)) \/ RLt(RAbs(dVla), RInt(ShapeLimit))
    THEN <<Steer(dVlo), Steer(dVla), 0>>
    ELSE <<Steer(dVlo), Steer(dVla), Steer(dVlo)>>
\* the direction the watchdog of apply_correction leaves commanded
WatchdogDirection(h, r) == <<h, r, 0>>

\* math.sqrt(dV_lat**2 + dV_lon**2), at a resolution of 0.1 m/s
Hypot(a, b) ==
    LET x == RRound(a, 10)
        y == RRound(b, 10)
    IN  Norm(ISqrt(x * x + y * y), 10)

\* the thrust test with a threshold above zero
HasThrust_threshold(th) == th > 100
HasThrust(th) == th > 0
impulse_time_of(m, dV, th) == RDiv(RMul(RInt(m), dV), RInt(th))
\* the clamp without its floor
ClampImpulse_nofloor(it) == RMin(it, RInt(ImpulseCeil))
\* max(0.05, min(impulse_time, 5))
ClampImpulse(it) == RMax(ImpulseFloor, RMin(it, RInt(ImpulseCeil)))

(***************************************************************************)
(* Bounds and the values the vehicle's telemetry is drawn from             *)
(***************************************************************************)
\* max_attempts ranges over 0..MaxAttempts
MaxAttempts == 2
\* what a poll of the vehicle can take beyond its sleep (0.1 s units)
ShortLag == 95
MaxLag == 200
\* the engines of the vessel
NumEngines == 1
\* the recovery burns of one run of the recovery loop are counted up to this
MaxRecoveries == 3

\* latitude, longitude (hundredths of a degree) and their change in one dt
LatCd == {-10, 30}
LonCd == {-7506, -7470}
RateCd == {-1, 0, 1}
\* surface altitude (m) and its change in one dt
AltM == {900, 1000, 1500, 2000}
ClimbM == {-1, 0, 1}
\* surface altitude (m) polled after staging
DescentAltM == {0, 1, 2, 50}
\* positions polled before the approach (hundredths of a degree)
ApproachLatCd == {-10, 7000}
ApproachLonCd == {-7506, 0}
\* ap.error (degrees), vessel.mass (kg), engine.available_thrust (N)
ErrVals == {5, 6}
MassVals == {1, 1000}
ThrustVals == {0, 100}
Engine == [active : BOOLEAN, has_fuel : BOOLEAN, available_thrust : ThrustVals]
EngineLists == [1..NumEngines -> Engine]
\* what get_current_thrust can return
ThrustSums == {get_current_thrust(e) : e \in EngineLists}

Deg(c) == Norm(c, 100)
\* vessel.flight(): <<latitude, longitude, surface_altitude>>
Reading(la, lo, al) == <<Deg(la), Deg(lo), RInt(al)>>
Readings == {Reading(la, lo, al) : la \in LatCd, lo \in LonCd, al \in AltM}
\* the two readings of one get_angular_velocities call
SamplePairs ==
    {<<Reading(la, lo, al), Reading(la + a, lo + b, al + c)>> :
        la \in LatCd, lo \in LonCd, al \in AltM,
        a \in RateCd, b \in RateCd, c \in ClimbM}
\* the rates get_angular_velocities can return
Rates == {get_angular_velocities(p[1], p[2], DT) : p \in SamplePairs}

\* timeouts and sleeps, in units of 0.1 s
AlignTimeout == 200
RecoveryTimeout == 200
EntryTimeout == 100
CorrectionSleep == 5
PollSleep == 1
\* the timer saturates just past the timeout it is compared with
Tick(e, sleep, lag, timeout) ==
    IF e + sleep + lag > timeout THEN timeout + 1 ELSE e + sleep + lag
Lags == {ShortLag, MaxLag}

(***************************************************************************)
(* State                                                                   *)
(***************************************************************************)
VARIABLES
    pc,               \* the statement the program is at
    max_attempts,     \* check_and_correct's parameter
    attempt,          \* the loop index of check_and_correct
    w_lat, w_lon, V_alt, pred_lat, pred_lon,   \* check_and_correct
    dlat, dlon, t, dV_lat, dV_lon,             \* check_and_correct
    heading, roll_angle, mass, dV, thrust,     \* apply_correction
    impulse_time, hold_time,                   \* apply_correction
    elapsed,          \* time.time() - start_time in the current wait (0.1 s),
                      \* 0 outside a wait
    ac_result,        \* what apply_correction returned last
    cc_result,        \* what check_and_correct returned
    raised,           \* the exception that ended the program
    success,          \* main's success
    m_dlat, m_dlon, h,                         \* main
    surface_altitude, \* the altitude read by the last loop test of lines 240 and 248
    throttle, target_direction, ap_engaged, sas, stage,   \* commanded
    ap_error,         \* the last ap.error read
    ac_calls,         \* calls of apply_correction so far
    impulses,         \* corrective burns started so far
    skipped,          \* calls of apply_correction that found no thrust
    recoveries,       \* recovery burns started in the current run of the recovery loop
    fired             \* the watchdog has fired in the current wait of apply_correction

cc_locals == <<w_lat, w_lon, V_alt, pred_lat, pred_lon, dlat, dlon, t, dV_lat, dV_lon>>
ac_locals == <<heading, roll_angle, mass, dV, thrust, impulse_time, hold_time>>
m_locals == <<m_dlat, m_dlon, h, surface_altitude, success>>
vehicle == <<throttle, target_direction, ap_engaged, sas, stage>>
history == <<ac_calls, impulses, skipped, recoveries, fired>>
vars == <<pc, max_attempts, attempt, cc_locals, ac_locals, elapsed, ac_result,
          cc_result, raised, m_locals, vehicle, ap_error, history>>

\* main passes no max_attempts (the default is 20); here it ranges over
\* 0..MaxAttempts
Init ==
    /\ pc = "m_start"
    /\ max_attempts \in 0..MaxAttempts
    /\ attempt = 0
    /\ w_lat = None /\ w_lon = None /\ V_alt = None
    /\ pred_lat = None /\ pred_lon = None
    /\ dlat = None /\ dlon = None /\ t = None
    /\ dV_lat = None /\ dV_lon = None
    /\ heading = 0 /\ roll_angle = 0 /\ mass = 0 /\ dV = None /\ thrust = 0
    /\ impulse_time = None /\ hold_time = None
    /\ elapsed = 0
    /\ ac_result = "none" /\ cc_result = "none" /\ raised = "none"
    /\ success = "none"
    /\ m_dlat = None /\ m_dlon = None /\ h = 0 /\ surface_altitude = 0
    /\ throttle = RZero /\ target_direction = <<0, 0, 0>>
    /\ ap_engaged = FALSE /\ sas = FALSE /\ stage = 0
    /\ ap_error = 0
    /\ ac_calls = 0 /\ impulses = 0 /\ skipped = 0 /\ recoveries = 0 /\ fired = FALSE

(***************************************************************************)
(* main, up to the call of check_and_correct                               *)
(***************************************************************************)
\* out of range only with both differences beyond the limit
OutOfRange_both(dla, dlo) ==
    RGt(RAbs(dla), RInt(ApproachLimit)) /\ RGt(RAbs(dlo), RInt(ApproachLimit))
\* the loop test of line 208
OutOfRange(dla, dlo) ==
    RGt(RAbs(dla), RInt(ApproachLimit)) \/ RGt(RAbs(dlo), RInt(ApproachLimit))

\* lines 197-199: the first position reading
MainStart ==
    /\ pc = "m_start"
    /\ \E la \in ApproachLatCd, lo \in ApproachLonCd :
          /\ m_dlat' = RSub(Deg(la), target_lat)
          /\ m_dlon' = RSub(Deg(lo), target_lon)
    /\ pc' = "m_approach"
    /\ UNCHANGED <<max_attempts, attempt, cc_locals, ac_locals, elapsed, ac_result,
                   cc_result, raised, h, surface_altitude, success, vehicle, ap_error,
                   history>>

\* lines 208-213: out of range, poll the position again
MainApproachPoll ==
    /\ pc = "m_approach"
    /\ OutOfRange(m_dlat, m_dlon)
    /\ \E la \in ApproachLatCd, lo \in ApproachLonCd :
          /\ m_dlat' = RSub(Deg(la), target_lat)
          /\ m_dlon' = RSub(Deg(lo), target_lon)
    /\ UNCHANGED <<pc, max_attempts, attempt, cc_locals, ac_locals, elapsed, ac_result,
                   cc_result, raised, h, surface_altitude, success, vehicle, ap_error,
                   history>>

\* lines 208, 214-217: in range; SAS off
MainSasOff ==
    /\ pc = "m_approach"
    /\ ~OutOfRange(m_dlat, m_dlon)
    /\ sas' = FALSE
    /\ pc' = "m_sas_on"
    /\ UNCHANGED <<max_attempts, attempt, cc_locals, ac_locals, elapsed, ac_result,
                   cc_result, raised, m_locals, throttle, target_direction,
                   ap_engaged, stage, ap_error, history>>

\* lines 218-219: SAS on, check_and_correct is called
MainSasOn ==
    /\ pc = "m_sas_on"
    /\ sas' = TRUE
    /\ attempt' = 0
    /\ pc' = "cc_for"
    /\ UNCHANGED <<max_attempts, cc_locals, ac_locals, elapsed, ac_result,
                   cc_result, raised, m_locals, throttle, target_direction,
                   ap_engaged, stage, ap_error, history>>

(***************************************************************************)
(* check_and_correct                                                       *)
(***************************************************************************)
\* the loop running one attempt too many
MoreAttempts_inclusive(a, m) == a <= m
\* the loop test of line 132: another attempt is due
MoreAttempts(a, m) == a < m

\* the rates of a sample with the prediction made from them on a reading
Predictions ==
    {<<w, predict_landing_coords(r, w[1], w[2], w[3])>> : w \in Rates, r \in Readings}

\* lines 136-137 and 155-156: sample, then predict on a fresh reading
SampleAndPredict(next) ==
    \E wp \in Predictions :
        LET w == wp[1]
            p == wp[2]
        IN  /\ w_lat' = w[1] /\ w_lon' = w[2] /\ V_alt' = w[3]
            /\ pred_lat' = p[1] /\ pred_lon' = p[2]
            /\ IF p[1] = ZeroDiv
                  THEN pc' = "crashed" /\ raised' = "ZeroDivisionError"
                  ELSE pc' = next /\ raised' = raised

\* line 132-133: the next attempt starts
CC_NextAttempt ==
    /\ pc = "cc_for"
    /\ MoreAttempts(attempt, max_attempts)
    /\ attempt' = attempt + 1
    /\ pc' = "cc_sample"
    \* the values of the attempt before are dead: each is assigned again
    \* before it is read
    /\ w_lat' = None /\ w_lon' = None /\ V_alt' = None
    /\ pred_lat' = None /\ pred_lon' = None
    /\ dlat' = None /\ dlon' = None /\ t' = None
    /\ dV_lat' = None /\ dV_lon' = None
    /\ UNCHANGED <<max_attempts, ac_locals, elapsed, ac_result, cc_result, raised,
                   m_locals, vehicle, ap_error, history>>

\* the attempts are used up and that is raised as an error
CC_Exhausted_raises ==
    /\ pc = "cc_for"
    /\ ~MoreAttempts(attempt, max_attempts)
    /\ raised' = "RuntimeError"
    /\ pc' = "crashed"
    /\ UNCHANGED <<max_attempts, attempt, cc_locals, ac_locals, elapsed, ac_result,
                   cc_result, m_locals, vehicle, ap_error, history>>

\* lines 132, 179-180: the attempts are used up, return False
CC_Exhausted ==
    /\ pc = "cc_for"
    /\ ~MoreAttempts(attempt, max_attempts)
    /\ cc_result' = "False"
    /\ pc' = "cc_return"
    /\ UNCHANGED <<max_attempts, attempt, cc_locals, ac_locals, elapsed, ac_result,
                   raised, m_locals, vehicle, ap_error, history>>

\* lines 136-137
CC_Sample ==
    /\ pc = "cc_sample"
    /\ SampleAndPredict("cc_while")
    /\ UNCHANGED <<max_attempts, attempt, dlat, dlon, t, dV_lat, dV_lon, ac_locals,
                   elapsed, ac_result, cc_result, m_locals, vehicle, ap_error, history>>

\* lines 139-146: no prediction; command the recovery direction
RB_Command ==
    /\ pc = "cc_while"
    /\ pred_lat = None
    /\ ap_engaged' = TRUE
    /\ target_direction' = <<0, 0, -1>>
    /\ elapsed' = 0
    /\ pc' = "rb_wait"
    /\ UNCHANGED <<max_attempts, attempt, cc_locals, ac_locals, ac_result, cc_result,
                   raised, m_locals, throttle, sas, stage, ap_error, history>>

\* lines 147-150: not aligned, within the 20 s: sleep 0.1
RB_WaitPoll ==
    /\ pc = "rb_wait"
    /\ \E e \in ErrVals, lag \in Lags :
          /\ e > AlignTol
          /\ ~(elapsed > RecoveryTimeout)
          /\ ap_error' = e
          /\ elapsed' = Tick(elapsed, PollSleep, lag, RecoveryTimeout)
    /\ UNCHANGED <<pc, max_attempts, attempt, cc_locals, ac_locals, ac_result, cc_result,
                   raised, m_locals, vehicle, history>>

\* lines 147-149: not aligned after 20 s: RuntimeError
RB_WaitTimeout ==
    /\ pc = "rb_wait"
    /\ \E e \in ErrVals :
          /\ e > AlignTol
          /\ elapsed > RecoveryTimeout
          /\ ap_error' = e
    /\ raised' = "RuntimeError"
    /\ pc' = "crashed"
    /\ UNCHANGED <<max_attempts, attempt, cc_locals, ac_locals, elapsed, ac_result,
                   cc_result, m_locals, vehicle, history>>

\* lines 147, 151-152: aligned; throttle up
RB_ThrottleUp ==
    /\ pc = "rb_wait"
    /\ \E e \in ErrVals :
          /\ ~(e > AlignTol)
          /\ ap_error' = e
    /\ throttle' = RecoveryThrottle
    /\ elapsed' = 0
    /\ recoveries' = (IF recoveries < MaxRecoveries THEN recoveries + 1 ELSE recoveries)
    /\ pc' = "rb_cut"
    /\ UNCHANGED <<max_attempts, attempt, cc_locals, ac_locals, ac_result,
                   cc_result, raised, m_locals, target_direction, ap_engaged, sas,
                   stage, ac_calls, impulses, skipped, fired>>

\* a recovery burn using up an attempt
RB_ThrottleCut_counted ==
    /\ pc = "rb_cut"
    /\ throttle' = RZero
    /\ attempt' = attempt + 1
    /\ SampleAndPredict(IF attempt + 1 < max_attempts THEN "cc_while" ELSE "cc_for")
    /\ UNCHANGED <<max_attempts, dlat, dlon, t, dV_lat, dV_lon, ac_locals,
                   elapsed, ac_result, cc_result, m_locals, target_direction,
                   ap_engaged, sas, stage, ap_error, history>>

\* lines 153-156: throttle cut, sample and predict again
RB_ThrottleCut ==
    /\ pc = "rb_cut"
    /\ throttle' = RZero
    /\ SampleAndPredict("cc_while")
    /\ UNCHANGED <<max_attempts, attempt, dlat, dlon, t, dV_lat, dV_lon, ac_locals,
                   elapsed, ac_result, cc_result, m_locals, target_direction,
                   ap_engaged, sas, stage, ap_error, history>>

\* lines 139, 161-165: the miss and the time to the target altitude
CC_Error ==
    /\ pc = "cc_while"
    /\ pred_lat # None
    /\ dlat' = RSub(target_lat, pred_lat)
    /\ dlon' = RSub(target_lon, pred_lon)
    /\ \E al \in AltM :
          IF RAbs(V_alt) = RZero
          THEN /\ t' = t /\ pc' = "crashed" /\ raised' = "ZeroDivisionError"
          ELSE /\ t' = RDiv(RSub(RInt(al), RInt(TARGET_ALT)), RAbs(V_alt))
               /\ pc' = "cc_check" /\ raised' = raised
    \* the recovery loop is left
    /\ recoveries' = 0
    /\ UNCHANGED <<max_attempts, attempt, w_lat, w_lon, V_alt, pred_lat, pred_lon,
                   dV_lat, dV_lon, ac_locals, elapsed, ac_result, cc_result,
                   m_locals, vehicle, ap_error, ac_calls, impulses, skipped, fired>>

\* lines 167-169: within the miss, return True
CC_Converged ==
    /\ pc = "cc_check"
    /\ WithinMiss(dlat, dlon)
    /\ cc_result' = "True"
    /\ pc' = "cc_return"
    /\ UNCHANGED <<max_attempts, attempt, cc_locals, ac_locals, elapsed, ac_result,
                   raised, m_locals, vehicle, ap_error, history>>

\* lines 167, 172-173: the required dV; then apply_correction is called
CC_RequiredDV ==
    /\ pc = "cc_check"
    /\ ~WithinMiss(dlat, dlon)
    /\ \E la \in LatCd :
          LET a == calculate_required_dV(dlat, t, RZero)
              b == calculate_required_dV(dlon, t, Deg(la))
          IN  IF a = ZeroDiv \/ b = ZeroDiv
              THEN /\ dV_lat' = (IF a = ZeroDiv THEN dV_lat ELSE a)
                   /\ dV_lon' = dV_lon
                   /\ pc' = "crashed" /\ raised' = "ZeroDivisionError"
              ELSE /\ dV_lat' = a /\ dV_lon' = b
                   /\ pc' = "ac_orient" /\ raised' = raised
    /\ UNCHANGED <<max_attempts, attempt, w_lat, w_lon, V_alt, pred_lat, pred_lon,
                   dlat, dlon, t, ac_locals, elapsed, ac_result, cc_result,
                   m_locals, vehicle, ap_error, history>>

(***************************************************************************)
(* apply_correction                                                        *)
(***************************************************************************)
\* lines 60-93: engage, steer by the signs, command the direction
AC_Orient ==
    /\ pc = "ac_orient"
    /\ ap_engaged' = TRUE
    /\ heading' = Steer(dV_lon)
    /\ roll_angle' = Steer(dV_lat)
    /\ target_direction' = ShapedDirection(dV_lat, dV_lon)
    /\ elapsed' = 0
    /\ ac_calls' = ac_calls + 1
    /\ fired' = FALSE
    /\ pc' = "ac_wait"
    /\ UNCHANGED <<max_attempts, attempt, cc_locals, mass, dV, thrust, impulse_time,
                   hold_time, ac_result, cc_result, raised, m_locals, throttle, sas,
                   stage, ap_error, impulses, skipped, recoveries>>

\* lines 94-98: not aligned, within the 20 s: sleep 0.5
AC_WaitPoll ==
    /\ pc = "ac_wait"
    /\ \E e \in ErrVals, lag \in Lags :
          /\ e > AlignTol
          /\ ~(elapsed > AlignTimeout)
          /\ ap_error' = e
          /\ elapsed' = Tick(elapsed, CorrectionSleep, lag, AlignTimeout)
    /\ UNCHANGED <<pc, max_attempts, attempt, cc_locals, ac_locals, ac_result, cc_result,
                   raised, m_locals, vehicle, history>>

\* the watchdog raising, as the waits of check_and_correct and main do
AC_WaitWatchdog_raises ==
    /\ pc = "ac_wait"
    /\ \E e \in ErrVals :
          /\ e > AlignTol
          /\ elapsed > AlignTimeout
          /\ ap_error' = e
    /\ raised' = "RuntimeError"
    /\ pc' = "crashed"
    /\ UNCHANGED <<max_attempts, attempt, cc_locals, ac_locals, elapsed, ac_result,
                   cc_result, m_locals, vehicle, history>>

\* lines 94-98: not aligned after 20 s: the direction is commanded again
AC_WaitWatchdog ==
    /\ pc = "ac_wait"
    /\ \E e \in ErrVals, lag \in Lags :
          /\ e > AlignTol
          /\ elapsed > AlignTimeout
          /\ ap_error' = e
          /\ elapsed' = Tick(elapsed, CorrectionSleep, lag, AlignTimeout)
    /\ target_direction' = WatchdogDirection(heading, roll_angle)
    /\ fired' = TRUE
    /\ UNCHANGED <<pc, max_attempts, attempt, cc_locals, ac_locals, ac_result, cc_result,
                   raised, m_locals, throttle, ap_engaged, sas, stage, ac_calls,
                   impulses, skipped, recoveries>>

\* the wait left whatever the error read is
AC_Aligned_blind ==
    /\ pc = "ac_wait"
    /\ \E e \in ErrVals : ap_error' = e
    /\ elapsed' = 0
    /\ fired' = FALSE
    /\ pc' = "ac_thrust"
    /\ UNCHANGED <<max_attempts, attempt, cc_locals, ac_locals, ac_result, cc_result, raised,
                   m_locals, vehicle, ac_calls, impulses, skipped, recoveries>>

\* lines 94, 99-100: aligned
AC_Aligned ==
    /\ pc = "ac_wait"
    /\ \E e \in ErrVals :
          /\ ~(e > AlignTol)
          /\ ap_error' = e
    /\ elapsed' = 0
    /\ fired' = FALSE
    /\ pc' = "ac_thrust"
    /\ UNCHANGED <<max_attempts, attempt, cc_locals, ac_locals, ac_result, cc_result, raised,
                   m_locals, vehicle, ac_calls, impulses, skipped, recoveries>>

\* lines 102-106: mass, dV, thrust; there is thrust: the time of the impulse
AC_ImpulseTime ==
    /\ pc = "ac_thrust"
    /\ dV' = Hypot(dV_lat, dV_lon)
    /\ \E m \in MassVals, th \in ThrustSums :
          /\ HasThrust(th)
          /\ mass' = m
          /\ thrust' = th
          /\ impulse_time' = impulse_time_of(m, dV', th)
    /\ pc' = "ac_throttle"
    /\ UNCHANGED <<max_attempts, attempt, cc_locals, heading, roll_angle, hold_time, elapsed, ac_result, cc_result, raised, m_locals,
                   vehicle, ap_error, history>>

\* lines 102-109: mass, dV, thrust; no thrust: return False
AC_NoThrust ==
    /\ pc = "ac_thrust"
    /\ dV' = Hypot(dV_lat, dV_lon)
    /\ \E m \in MassVals, th \in ThrustSums :
          /\ ~HasThrust(th)
          /\ mass' = m
          /\ thrust' = th
    /\ ac_result' = "False"
    /\ skipped' = skipped + 1
    /\ pc' = "ac_return"
    /\ UNCHANGED <<max_attempts, attempt, cc_locals, heading, roll_angle, impulse_time, hold_time, elapsed, cc_result, raised, m_locals,
                   vehicle, ap_error, ac_calls, impulses, recoveries, fired>>

\* lines 113-118: sample for the log, throttle up, hold
AC_ThrottleUp ==
    /\ pc = "ac_throttle"
    /\ throttle' = ThrPowArg
    /\ hold_time' = ClampImpulse(impulse_time)
    /\ impulses' = impulses + 1
    /\ pc' = "ac_cut"
    /\ UNCHANGED <<max_attempts, attempt, cc_locals, heading, roll_angle, mass, dV,
                   thrust, impulse_time, elapsed, ac_result, cc_result, raised,
                   m_locals, target_direction, ap_engaged, sas, stage, ap_error,
                   ac_calls, skipped, recoveries, fired>>

\* the return without the throttle cut
AC_ThrottleCut_open ==
    /\ pc = "ac_cut"
    /\ roll_angle' = 0
    /\ heading' = 0
    /\ ac_result' = "None"
    /\ pc' = "ac_return"
    /\ UNCHANGED <<max_attempts, attempt, cc_locals, mass, dV, thrust, impulse_time,
                   hold_time, elapsed, cc_result, raised, m_locals, vehicle, ap_error,
                   history>>

\* lines 119-125: throttle cut, sample for the log, return None
AC_ThrottleCut ==
    /\ pc = "ac_cut"
    /\ throttle' = RZero
    /\ roll_angle' = 0
    /\ heading' = 0
    /\ ac_result' = "None"
    /\ pc' = "ac_return"
    /\ UNCHANGED <<max_attempts, attempt, cc_locals, mass, dV, thrust, impulse_time,
                   hold_time, elapsed, cc_result, raised, m_locals, target_direction,
                   ap_engaged, sas, stage, ap_error, history>>

\* line 177: apply_correction has returned; its value is not read
CC_AfterCorrection ==
    /\ pc = "ac_return"
    /\ pc' = "cc_for"
    \* the frame of apply_correction is gone
    /\ heading' = 0 /\ roll_angle' = 0 /\ mass' = 0 /\ dV' = None /\ thrust' = 0
    /\ impulse_time' = None /\ hold_time' = None
    /\ UNCHANGED <<max_attempts, attempt, cc_locals, elapsed, ac_result, cc_result,
                   raised, m_locals, vehicle, ap_error, history>>

(***************************************************************************)
(* main, after check_and_correct                                           *)
(***************************************************************************)
\* lines 219-225: success is assigned, SAS off
MainAfterCorrect ==
    /\ pc = "cc_return"
    /\ success' = cc_result
    /\ sas' = FALSE
    /\ pc' = "m_entry"
    \* the frame of check_and_correct is gone
    /\ w_lat' = None /\ w_lon' = None /\ V_alt' = None
    /\ pred_lat' = None /\ pred_lon' = None
    /\ dlat' = None /\ dlon' = None /\ t' = None
    /\ dV_lat' = None /\ dV_lon' = None
    /\ UNCHANGED <<max_attempts, attempt, ac_locals, elapsed, ac_result, cc_result,
                   raised, m_dlat, m_dlon, h, surface_altitude, throttle,
                   target_direction, ap_engaged, stage, ap_error, history>>

\* lines 226-234: engage, SAS off and on, command the entry direction
MainEntryLock ==
    /\ pc = "m_entry"
    /\ ap_engaged' = TRUE
    /\ sas' = TRUE
    /\ target_direction' = <<0, 0, -1>>
    /\ elapsed' = 0
    /\ pc' = "m_entry_wait"
    /\ UNCHANGED <<max_attempts, attempt, cc_locals, ac_locals, ac_result, cc_result,
                   raised, m_locals, throttle, stage, ap_error, history>>

\* lines 235-238: not aligned, within the 10 s: sleep 0.1
MainEntryPoll ==
    /\ pc = "m_entry_wait"
    /\ \E e \in ErrVals, lag \in Lags :
          /\ e > AlignTol
          /\ ~(elapsed > EntryTimeout)
          /\ ap_error' = e
          /\ elapsed' = Tick(elapsed, PollSleep, lag, EntryTimeout)
    /\ UNCHANGED <<pc, max_attempts, attempt, cc_locals, ac_locals, ac_result, cc_result,
                   raised, m_locals, vehicle, history>>

\* lines 235-237: not aligned after 10 s: RuntimeError
MainEntryTimeout ==
    /\ pc = "m_entry_wait"
    /\ \E e \in ErrVals :
          /\ e > AlignTol
          /\ elapsed > EntryTimeout
          /\ ap_error' = e
    /\ raised' = "RuntimeError"
    /\ pc' = "crashed"
    /\ UNCHANGED <<max_attempts, attempt, cc_locals, ac_locals, elapsed, ac_result,
                   cc_result, m_locals, vehicle, history>>

\* lines 235, 239: aligned
MainEntryAligned ==
    /\ pc = "m_entry_wait"
    /\ \E e \in ErrVals :
          /\ ~(e > AlignTol)
          /\ ap_error' = e
    /\ pc' = "m_hold"
    /\ elapsed' = 0
    /\ UNCHANGED <<max_attempts, attempt, cc_locals, ac_locals, ac_result,
                   cc_result, raised, m_locals, vehicle, history>>

\* lines 240-242: above the staging altitude: hold the direction
MainHold ==
    /\ pc = "m_hold"
    /\ \E al \in AltM :
          /\ al > StageAlt
          /\ surface_altitude' = al
    /\ target_direction' = <<0, 0, -1>>
    /\ UNCHANGED <<pc, max_attempts, attempt, cc_locals, ac_locals, elapsed, ac_result,
                   cc_result, raised, m_dlat, m_dlon, h, success, throttle, ap_engaged,
                   sas, stage, ap_error, history>>

\* staging whatever the altitude read is
MainStage_early ==
    /\ pc = "m_hold"
    /\ \E al \in AltM : surface_altitude' = al
    /\ stage' = stage + 1
    /\ pc' = "m_release"
    /\ UNCHANGED <<max_attempts, attempt, cc_locals, ac_locals, elapsed, ac_result,
                   cc_result, raised, m_dlat, m_dlon, h, success, throttle,
                   target_direction, ap_engaged, sas, ap_error, history>>

\* lines 240, 243: at or below the staging altitude: next stage
MainStage ==
    /\ pc = "m_hold"
    /\ \E al \in AltM :
          /\ ~(al > StageAlt)
          /\ surface_altitude' = al
    /\ stage' = stage + 1
    /\ pc' = "m_release"
    /\ UNCHANGED <<max_attempts, attempt, cc_locals, ac_locals, elapsed, ac_result,
                   cc_result, raised, m_dlat, m_dlon, h, success, throttle,
                   target_direction, ap_engaged, sas, ap_error, history>>

\* lines 244-247: SAS off, attitude hold released, the first altitude
MainRelease ==
    /\ pc = "m_release"
    /\ sas' = FALSE
    /\ ap_engaged' = FALSE
    /\ \E al \in DescentAltM : h' = al
    /\ pc' = "m_descent"
    /\ UNCHANGED <<max_attempts, attempt, cc_locals, ac_locals, elapsed, ac_result,
                   cc_result, raised, m_dlat, m_dlon, surface_altitude, success,
                   throttle, target_direction, stage, ap_error, history>>

\* lines 248-251: the altitude is more than 1 m above h: read h again
MainDescentPoll ==
    /\ pc = "m_descent"
    /\ \E al \in DescentAltM :
          /\ al - h > 1
          /\ surface_altitude' = al
    /\ \E al \in DescentAltM : h' = al
    /\ UNCHANGED <<pc, max_attempts, attempt, cc_locals, ac_locals, elapsed, ac_result,
                   cc_result, raised, m_dlat, m_dlon, success, vehicle, ap_error,
                   history>>

\* lines 248, 252-255: the descent is declared finished
MainLanded ==
    /\ pc = "m_descent"
    /\ \E al \in DescentAltM :
          /\ ~(al - h > 1)
          /\ surface_altitude' = al
    /\ pc' = "done"
    /\ UNCHANGED <<max_attempts, attempt, cc_locals, ac_locals, elapsed, ac_result,
                   cc_result, raised, m_dlat, m_dlon, h, success, vehicle, ap_error,
                   history>>

Next ==
    \/ MainStart \/ MainApproachPoll \/ MainSasOff \/ MainSasOn
    \/ CC_NextAttempt \/ CC_Exhausted \/ CC_Sample
    \/ RB_Command \/ RB_WaitPoll \/ RB_WaitTimeout \/ RB_ThrottleUp \/ RB_ThrottleCut
    \/ CC_Error \/ CC_Converged \/ CC_RequiredDV
    \/ AC_Orient \/ AC_WaitPoll \/ AC_WaitWatchdog \/ AC_Aligned
    \/ AC_ImpulseTime \/ AC_NoThrust \/ AC_ThrottleUp \/ AC_ThrottleCut
    \/ CC_AfterCorrection
    \/ MainAfterCorrect \/ MainEntryLock \/ MainEntryPoll \/ MainEntryTimeout
    \/ MainEntryAligned \/ MainHold \/ MainStage \/ MainRelease
    \/ MainDescentPoll \/ MainLanded

Spec == Init /\ [][Next]_vars

(***************************************************************************)
(* Properties                                                              *)
(***************************************************************************)
MissWithin(a, b) == RLt(RAbs(a), Norm(2, 10)) /\ RLt(RAbs(b), Norm(2, 10))
\* the larger component of the miss is at least k degrees
MissAtLeast(k) == RGe(RAbs(dlat), RInt(k)) \/ RGe(RAbs(dlon), RInt(k))

\* C1: check_and_correct starts at most max_attempts attempts, calls
\* apply_correction at most once per attempt started, and so starts at most
\* max_attempts corrective burns.
C1_AttemptsBounded ==
    /\ attempt <= max_attempts
    /\ ac_calls <= attempt
    /\ impulses <= ac_calls
    /\ impulses <= max_attempts
C1_Witness ==
    /\ pc = "cc_return"
    /\ max_attempts = MaxAttempts
    /\ attempt = max_attempts
    /\ impulses = max_attempts

\* C2: check_and_correct returns True exactly from the check of an attempt
\* whose miss has |dlat| < 0.2 and |dlon| < 0.2; it never returns True with
\* a component of the last computed miss at 0.2 or more, and an attempt whose
\* miss is within both limits always returns True there and then.
C2_SuccessIffWithinMiss ==
    /\ []((pc = "cc_return" /\ cc_result = "True") => MissWithin(dlat, dlon))
    /\ [][pc = "cc_check" =>
            (MissWithin(dlat, dlon) <=> (cc_result' = "True" /\ pc' = "cc_return"))]_vars
    /\ [][(cc_result' = "True" /\ cc_result # "True") => pc = "cc_check"]_vars
C2_Witness ==
    /\ pc = "cc_return"
    /\ cc_result = "True"
    /\ attempt = 2
    /\ impulses = 1

\* C3: when the attempts are used up without the miss coming within the
\* limits, check_and_correct returns False; that is never raised as an
\* exception, and False is returned only then.
C3_ExhaustionReturnsFalse ==
    /\ [][(pc = "cc_for" /\ attempt = max_attempts) =>
            (cc_result' = "False" /\ pc' = "cc_return" /\ raised' = "none")]_vars
    /\ []((pc = "cc_return" /\ cc_result = "False") =>
            (attempt = max_attempts /\ raised = "none" /\ ~MissWithin(dlat, dlon)))
C3_Witness ==
    /\ pc = "cc_return"
    /\ cc_result = "False"
    /\ max_attempts = MaxAttempts
    /\ ac_calls = MaxAttempts

\* C4: a run of check_and_correct in which apply_correction found no thrust
\* ends with an outcome that a run with every impulse applied cannot have
\* (those end with True or with False).
C4_NoThrustSurfaced ==
    (pc = "cc_return" /\ skipped > 0) => cc_result \notin {"True", "False"}

\* C5: apply_correction returns False for lack of thrust exactly when the
\* thrust it read is 0; with any thrust above 0 it goes on to the burn, and
\* the step after that opens the throttle.
C5_ThrustStep ==
    pc = "ac_thrust" =>
        /\ (ac_result' = "False" /\ pc' = "ac_return") <=> (thrust' = 0)
        /\ (thrust' > 0) => (pc' = "ac_throttle" /\ ac_result' = ac_result)
C5_NoThrustIffZero ==
    /\ [][C5_ThrustStep]_vars
    /\ [][pc = "ac_throttle" => (RGt(throttle', RZero) /\ pc' = "ac_cut")]_vars
C5_Witness ==
    /\ pc = "ac_return"
    /\ ac_result = "False"
    /\ thrust = 0
    /\ impulses = 1

C7_HoldTimeClamped ==
    pc = "ac_cut" =>
        LET it == RDiv(RMul(RInt(mass), dV), RInt(thrust))
        IN  /\ RLe(Norm(5, 100), hold_time) /\ RLe(hold_time, RInt(5))
            /\ RLt(it, Norm(5, 100)) => hold_time = Norm(5, 100)
            /\ RGt(it, RInt(5)) => hold_time = RInt(5)
            /\ (RLe(Norm(5, 100), it) /\ RLe(it, RInt(5))) => hold_time = it
C7_Witness ==
    /\ pc = "ac_cut"
    /\ RLt(RDiv(RMul(RInt(mass), dV), RInt(thrust)), Norm(5, 100))
    /\ hold_time = Norm(5, 100)

\* C8: calculate_required_dV is never called with a time to the target
\* altitude of zero or less.
C8_TimePositiveAtDV ==
    (pc = "cc_check" /\ ~MissWithin(dlat, dlon)) => RGt(t, RZero)

C9_CorrectionWaitStep ==
    pc = "ac_wait" =>
        /\ raised' = "none" /\ pc' # "crashed"
        /\ (ap_error' > 5) =>
              /\ pc' = "ac_wait"
              /\ (elapsed > 200) =>
                    (fired' /\ target_direction' = <<heading, roll_angle, 0>>)
              /\ ~(elapsed > 200) => UNCHANGED <<target_direction, fired>>
C9_RecoveryWaitStep ==
    (pc = "rb_wait" /\ ap_error' > 5) =>
        IF elapsed > 200 THEN raised' = "RuntimeError" /\ pc' = "crashed"
        ELSE raised' = "none" /\ pc' = "rb_wait"
C9_EntryWaitStep ==
    (pc = "m_entry_wait" /\ ap_error' > 5) =>
        IF elapsed > 100 THEN raised' = "RuntimeError" /\ pc' = "crashed"
        ELSE raised' = "none" /\ pc' = "m_entry_wait"
C10_SampleStep ==
    pc \in {"cc_sample", "rb_cut"} =>
        IF RGe(V_alt', RZero)
        THEN pred_lat' = None /\ pred_lon' = None /\ pc' = "cc_while"
        ELSE pred_lat' # None /\ pred_lon' # None /\ pc' = "cc_while"
C10_RecoveryStep ==
    (pc = "cc_while" /\ RGe(V_alt, RZero)) =>
        (pc' = "rb_wait" /\ target_direction' = <<0, 0, -1>> /\ UNCHANGED <<dlat, dlon, t>>)
C10_RecoveryUnlessDescending ==
    /\ [][C10_SampleStep]_vars
    /\ [][C10_RecoveryStep]_vars
    /\ [][pc = "rb_wait" => pc' \in {"rb_wait", "rb_cut", "crashed"}]_vars
    /\ [][(dlat' # dlat /\ dlat' # None) => RLt(V_alt, RZero)]_vars
    /\ [](pc \in {"cc_check", "ac_orient"} => (RLt(V_alt, RZero) /\ t # None))
C10_Witness ==
    /\ pc = "cc_check"
    /\ target_direction = <<0, 0, -1>>
    /\ RLt(V_alt, RZero)

\* C11: the terminal descent (the retrograde lock, staging, the touchdown
\* polls) is entered only with check_and_correct having returned True; with
\* it having returned False no lock is commanded and no stage is activated.
C11_TerminalOnlyAfterSuccess ==
    /\ (pc \in {"m_entry_wait", "m_hold", "m_release", "m_descent", "done"})
           => success = "True"
    /\ success = "False" => stage = 0

\* the sign of a rational
RSign(x) == IF RGt(x, RZero) THEN 1 ELSE IF RLt(x, RZero) THEN -1 ELSE 0
\* coordinate errors (degrees), times (s) and latitudes (degrees) on which
\* calculate_required_dV is tabulated
DcoordProbe == {Norm(n, 1000) : n \in {-10000, -200, -10, -9, 0, 9, 10, 200, 10000}}
TProbe == {RInt(-100), RZero, Norm(1, 2), RInt(1), RInt(500), RInt(1000)}
LatProbe == {RInt(-89), RInt(-30), RZero, Norm(1, 10), Norm(3, 10), RInt(60), RInt(89)}

\* C12: calculate_required_dV gives exactly 0 for |dcoord| < 0.01 whatever t
\* and lat are; for |dcoord| >= 0.01 with t > 0 and |lat| < 90 it gives a
\* nonzero value with the sign of dcoord; so every corrective impulse of
\* check_and_correct has a delta-V component that is not zero.
C12_Tabulated ==
    \A d \in DcoordProbe, tt \in TProbe, la \in LatProbe :
        LET v == calculate_required_dV(d, tt, la)
        IN  /\ RLt(RAbs(d), Norm(1, 100)) => v = RZero
            /\ (RGe(RAbs(d), Norm(1, 100)) /\ RGt(tt, RZero)) =>
                  (v # ZeroDiv /\ v # RZero /\ RSign(v) = RSign(d))
C12_DVStep ==
    (pc = "cc_check" /\ ~MissWithin(dlat, dlon)) =>
        /\ RLt(RAbs(dlat), Norm(1, 100)) => dV_lat' = RZero
        /\ (RLt(RAbs(dlon), Norm(1, 100)) /\ pc' # "crashed") => dV_lon' = RZero
        /\ (RGe(RAbs(dlat), Norm(1, 100)) /\ RGt(t, RZero)) =>
              (pc' = "ac_orient" /\ RSign(dV_lat') = RSign(dlat) /\ dV_lat' # RZero)
        /\ (RGe(RAbs(dlon), Norm(1, 100)) /\ RGt(t, RZero)) =>
              (pc' = "ac_orient" /\ RSign(dV_lon') = RSign(dlon) /\ dV_lon' # RZero)
C12_DeadZoneAndSign ==
    /\ [](C12_Tabulated)
    /\ [][C12_DVStep]_vars
    /\ []((pc \in {"ac_orient", "ac_wait", "ac_thrust", "ac_throttle", "ac_cut"}) =>
            (dV_lat # None /\ dV_lon # None /\ (dV_lat # RZero \/ dV_lon # RZero)))
C12_Witness ==
    /\ pc = "ac_cut"
    /\ RGt(t, RZero)
    /\ RLt(RAbs(dlat), Norm(1, 100))
    /\ dV_lat = RZero
    /\ dV_lon # RZero
    /\ RSign(dV_lon) = RSign(dlon)

\* C13: the throttle is raised above zero only in a corrective burn or a
\* recovery burn, after a direction was commanded and an attitude error of
\* at most 5 degrees was then read with that direction still commanded; no
\* burn starts or runs with the last error read above 5 degrees.
C13_ThrottleUpStep ==
    (RGt(throttle', RZero) /\ ~RGt(throttle, RZero)) =>
        /\ ap_error' <= 5
        /\ ap_engaged
        /\ UNCHANGED target_direction
        /\ \/ pc = "rb_wait" /\ target_direction = <<0, 0, -1>>
           \/ pc = "ac_throttle" /\ UNCHANGED ap_error
C13_WaitEntryStep ==
    /\ (pc' = "ac_wait" /\ pc # "ac_wait") =>
          (pc = "ac_orient" /\ ap_engaged'
           /\ target_direction' = ShapedDirection(dV_lat, dV_lon))
    /\ (pc' = "rb_wait" /\ pc # "rb_wait") =>
          (pc = "cc_while" /\ ap_engaged' /\ target_direction' = <<0, 0, -1>>)
C13_WaitExitStep ==
    /\ (pc' = "ac_thrust" /\ pc # "ac_thrust") =>
          (pc = "ac_wait" /\ ap_error' <= 5 /\ UNCHANGED target_direction)
    /\ (pc = "ac_thrust") =>
          (pc' \in {"ac_throttle", "ac_return"} /\ UNCHANGED <<target_direction, ap_error>>)
    /\ (pc' = "ac_throttle") => (pc = "ac_thrust")
C13_BurnOnlyWhenAligned ==
    /\ [][C13_ThrottleUpStep]_vars
    /\ [][C13_WaitEntryStep]_vars
    /\ [][C13_WaitExitStep]_vars
    /\ [](RGt(throttle, RZero) => (ap_error <= 5 /\ pc \in {"rb_cut", "ac_cut"}))
C13_Witness ==
    /\ pc = "ac_cut"
    /\ RGt(throttle, RZero)
    /\ ap_error <= 5
    /\ target_direction = ShapedDirection(dV_lat, dV_lon)
    /\ target_direction[3] # 0

\* C14: once the 20 s watchdog has fired in the wait of apply_correction,
\* the direction left commanded is the one commanded at the start of that
\* wait, in the two-axis and in the three-axis case.
C14_WatchdogKeepsDirection ==
    (pc = "ac_wait" /\ fired) => target_direction = ShapedDirection(dV_lat, dV_lon)

\* a delta-V below the limit of the three-axis direction
C15_Small(v) == RLt(RAbs(v), RInt(10))

\* C15: the direction commanded by apply_correction has the signs of the
\* longitude and latitude delta-V as its first two components, and its third
\* component is zero exactly when both magnitudes are below 10.
C15_ThirdZeroIffBothSmall ==
    (pc = "ac_wait" /\ ~fired) =>
        /\ target_direction[1] = RSign(dV_lon)
        /\ target_direction[2] = RSign(dV_lat)
        /\ (target_direction[3] = 0) <=> (C15_Small(dV_lon) /\ C15_Small(dV_lat))

\* C16: the recovery loop has no cap: its iterations leave the attempt
\* counter alone, and as long as every sample after a recovery burn has
\* V_alt >= 0 and the alignment succeeds, the loop goes round again and
\* check_and_correct does not return, whatever max_attempts is.
C16_InRecovery == pc \in {"rb_wait", "rb_cut"} \/ (pc = "cc_while" /\ pred_lat = None)
C16_RecoveryStep ==
    C16_InRecovery =>
        /\ attempt' = attempt
        /\ cc_result' = "none"
        /\ pc' \in {"cc_while", "rb_wait", "rb_cut", "crashed"}
C16_RoundStep ==
    /\ (pc = "cc_while" /\ pred_lat = None) => pc' = "rb_wait"
    /\ (pc = "rb_wait" /\ ap_error' <= 5) =>
          (pc' = "rb_cut" /\ recoveries' >= recoveries
           /\ (recoveries < MaxRecoveries => recoveries' = recoveries + 1))
    /\ (pc = "rb_cut" /\ RGe(V_alt', RZero)) =>
          (pc' = "cc_while" /\ pred_lat' = None /\ recoveries' = recoveries)
C16_RecoveryUncapped ==
    /\ [][C16_RecoveryStep]_vars
    /\ [][C16_RoundStep]_vars
    /\ [](pc = "cc_return" => recoveries = 0)
C16_Witness ==
    /\ pc = "cc_while"
    /\ pred_lat = None
    /\ max_attempts = 1
    /\ attempt = 1
    /\ recoveries > max_attempts
    /\ cc_result = "none"

\* C17: a throttle above zero is followed by the throttle command 0 as the
\* next command to the vehicle; so the throttle last commanded is 0 whenever
\* a sample is taken, a direction is commanded, or check_and_correct returns
\* or raises.
C17_CutStep ==
    RGt(throttle, RZero) =>
        /\ throttle' = RZero
        /\ UNCHANGED <<target_direction, ap_engaged, sas, stage>>
C17_ThrottleCutNext ==
    /\ [][C17_CutStep]_vars
    /\ [](throttle \in {RZero, Norm(5, 10)})
    /\ [](RGt(throttle, RZero) => pc \in {"rb_cut", "ac_cut"})
    \* a sample is taken at cc_sample and ac_throttle, and behind a cut
    /\ []((pc \in {"cc_sample", "ac_throttle"}) => throttle = RZero)
    /\ [][(w_lat' # w_lat \/ V_alt' # V_alt) => throttle' = RZero]_vars
    \* a direction is commanded
    /\ []((pc \in {"cc_while", "ac_orient", "ac_wait", "m_entry", "m_hold"}) =>
            throttle = RZero)
    /\ [][(target_direction' # target_direction) => (throttle = RZero /\ throttle' = RZero)]_vars
    \* check_and_correct returns or raises
    /\ []((pc \in {"cc_return", "crashed"}) => throttle = RZero)
C17_Witness ==
    /\ pc = "cc_while"
    /\ impulses = 1
    /\ recoveries = 1
    /\ throttle = RZero

\* C18: the next stage is activated once, from the hold of the terminal
\* phase, on a surface altitude read that is not above 1500 m with the
\* direction <<0, 0, -1>> commanded; the attitude hold is disengaged only
\* after that.
C18_StageStep ==
    (stage' # stage) =>
        /\ pc = "m_hold" /\ pc' = "m_release"
        /\ stage = 0 /\ stage' = 1
        /\ ~(surface_altitude' > 1500)
        /\ ap_engaged /\ UNCHANGED ap_engaged
        /\ target_direction = <<0, 0, -1>> /\ UNCHANGED target_direction
C18_HoldStep ==
    (pc = "m_hold" /\ surface_altitude' > 1500) =>
        (pc' = "m_hold" /\ stage' = 0 /\ ap_engaged' /\ target_direction' = <<0, 0, -1>>)
C18_DisengageStep ==
    (ap_engaged /\ ~ap_engaged') => (pc = "m_release" /\ stage = 1 /\ UNCHANGED stage)
C18_StageOnceBelowLimit ==
    /\ [][C18_StageStep]_vars
    /\ [][C18_HoldStep]_vars
    /\ [][C18_DisengageStep]_vars
    /\ [](stage \in {0, 1})
    /\ []((pc \in {"m_release", "m_descent", "done"}) <=> stage = 1)
    /\ []((pc \in {"m_descent", "done"}) => ~ap_engaged)
C18_Witness ==
    /\ pc = "m_release"
    /\ stage = 1
    /\ surface_altitude = 1500
    /\ ap_engaged
    /\ target_direction = <<0, 0, -1>>

\* C19: the descent is declared finished only on an altitude poll less than
\* 1 m away from the poll before it; a poll 1 m or more below the poll
\* before it keeps the controller polling.
C19_LandedOnlyWhenStill ==
    pc = "done" => IAbs(surface_altitude - h) < 1

\* differences (degrees) around the approach limit
RangeProbe == {Norm(n, 100) : n \in {-7000, -6001, -6000, -5999, 0, 5999, 6000, 6001, 7000}}
C20_InRange(dla, dlo) == RLe(RAbs(dla), RInt(60)) /\ RLe(RAbs(dlo), RInt(60))

\* C20: check_and_correct is called only once one position poll has both
\* |latitude - target_lat| <= 60 and |longitude - target_lon| <= 60; while
\* either is above 60 the controller polls the position again and commands
\* nothing (no SAS, no attitude, no throttle, no stage).
C20_Tabulated ==
    \A a \in RangeProbe, b \in RangeProbe : OutOfRange(a, b) <=> ~C20_InRange(a, b)
C20_PollStep ==
    (pc = "m_approach" /\ ~C20_InRange(m_dlat, m_dlon)) =>
        (pc' = "m_approach" /\ UNCHANGED <<vehicle, attempt, ap_error>>)
C20_EngageStep ==
    (pc' = "cc_for" /\ pc \in {"m_start", "m_approach", "m_sas_on"}) =>
        (pc = "m_sas_on" /\ C20_InRange(m_dlat, m_dlon) /\ UNCHANGED <<m_dlat, m_dlon>>)
C20_EngagedOnlyInRange ==
    /\ [](C20_Tabulated)
    /\ [][C20_PollStep]_vars
    /\ [][C20_EngageStep]_vars
    /\ []((pc \in {"m_start", "m_approach"}) =>
            (~sas /\ ~ap_engaged /\ throttle = RZero /\ stage = 0
             /\ target_direction = <<0, 0, 0>>))
    /\ []((pc \notin {"m_start", "m_approach"}) => C20_InRange(m_dlat, m_dlon))
C20_Witness ==
    /\ pc = "cc_for"
    /\ attempt = 0
    /\ sas
    /\ C20_InRange(m_dlat, m_dlon)
    /\ m_dlat # None

====
